---- MODULE Spec2Model ----
(***************************************************************************)
(* Delivery Scheduling using Z-Transforms (src/app.py).                    *)
(*                                                                         *)
(* The script is re-run from its first line on every user interaction.     *)
(* One action of this model is one interaction (a menu selection, a slider *)
(* step, a pattern change, an upload, a column selection) together with    *)
(* the whole run of the script it triggers.  The variables are the         *)
(* script's top-level names as they stand when the run ends; the widgets'  *)
(* return values are the inputs of the run.                                *)
(*                                                                         *)
(* NumPy arrays are modelled as references into a heap of buffers, so that *)
(* a view (data[:N]) shares its buffer with the array it was taken from    *)
(* and a slice assignment writes into one buffer only.                     *)
(*                                                                         *)
(* A number is the record [hi, lo] standing for hi * 2^53 + lo, with       *)
(* 0 <= lo < 2^53.  hi = 0 covers the integers every float64 holds         *)
(* exactly; hi = 1 covers [2^53, 2^54), where float64 values are 2 apart.  *)
(***************************************************************************)
EXTENDS Integers, Sequences, FiniteSets, TLC

VARIABLES
    choice,         \* st.sidebar.selectbox("Select Section", menu)
    N,              \* number of time steps of the pass
    k,              \* delay of the pass
    pattern,        \* st.selectbox("Select pattern type", ...)
    uploaded_file,  \* st.file_uploader(...): [present, df]
    col,            \* index of the selected numeric column in df
    heap,           \* the buffers allocated in the pass
    n, x, y,        \* array references into heap
    warned,         \* st.warning("No numeric columns found in dataset.")
    plotted,        \* st.pyplot(fig) was reached
    error,          \* the pass ended in an exception
    ran,            \* the section bodies executed in the pass
    stage, a, b, y1, y2, z   \* the delay block applied twice and once

composeVars == <<stage, a, b, y1, y2, z>>
vars == <<choice, N, k, pattern, uploaded_file, col, heap, n, x, y,
          warned, plotted, error, ran, stage, a, b, y1, y2, z>>

(***************************************************************************)
(* Bounds of the model.                                                    *)
(***************************************************************************)
MaxLen == 2        \* uploaded columns of length 1..MaxLen are enumerated in full
LongExtra == 1     \* long columns have CAP-1 .. CAP+LongExtra rows
MaxComposeLen == 3 \* sequence lengths of the composition check
MaxShift == 4      \* delays a, b of the composition check

(***************************************************************************)
(* Program constants.                                                      *)
(***************************************************************************)
N_MIN == 10
N_MAX == 100
N_DEFAULT == 30
K_MAX_DELAYED == 20
K_DEFAULT_DELAYED == 3
K_MAX_REAL == 50
K_DEFAULT_REAL == 5
CAP == 200
PULSE_STEP == 3

menu == <<"Introduction", "Regular Delivery Model", "Delayed Delivery Model",
          "Real Data Demo">>
Patterns == {"Constant (x[n]=1)", "Pulse / Periodic (1,0,0,...)"}

Min(p, q) == IF p <= q THEN p ELSE q
Max(p, q) == IF p >= q THEN p ELSE q

(***************************************************************************)
(* Numbers and the int64 -> float64 cast of a NumPy item assignment.       *)
(***************************************************************************)
Num(h, l) == [hi |-> h, lo |-> l]
Zero == Num(0, 0)
One == Num(0, 1)

\* Round-to-nearest, ties-to-even, of 2^53 + l to the float64 grid of step 2.
\* 2^53 + 4j has an even mantissa, 2^53 + 4j + 2 an odd one.
RoundToEven(l) ==
    IF l % 2 = 0 THEN l
    ELSE IF (l + 1) % 4 = 0 THEN l + 1 ELSE l - 1

ToFloat64(v) == IF v.hi = 0 THEN v ELSE Num(v.hi, RoundToEven(v.lo))

Cast(v, dtype) == IF dtype = "float64" THEN ToFloat64(v) ELSE v

(***************************************************************************)
(* Arrays: a reference [buf, off, len, dtype] views len cells of buffer    *)
(* buf starting after offset off.                                          *)
(***************************************************************************)
NoArr == [buf |-> 0, off |-> 0, len |-> 0, dtype |-> "none"]
Unset == -1

Arr(h, len, dtype) == [buf |-> Len(h) + 1, off |-> 0, len |-> len, dtype |-> dtype]

\* The values an array reference shows, as a sequence (index 1 is n = 0).
Elems(h, r) == [i \in 1..r.len |-> h[r.buf][r.off + i]]

\* Python's slice index normalisation: negative indices count from the end,
\* everything is clamped to 0..len.
SliceIndex(i, len) == IF i < 0 THEN Max(i + len, 0) ELSE Min(i, len)

\* r[start:stop], a view on the same buffer.
PySlice(r, start, stop) ==
    LET s == SliceIndex(start, r.len)
        e == SliceIndex(stop, r.len)
    IN  [buf |-> r.buf, off |-> r.off + s, len |-> Max(e - s, 0), dtype |-> r.dtype]

\* dst[...] = src for one-dimensional arrays: equal lengths copy element by
\* element, a source of length 1 is broadcast, anything else raises
\* ValueError and writes nothing.  The source is read in full before the
\* destination is written (NumPy copies overlapping operands).
SetSlice(h, dst, src) ==
    LET vals == Elems(h, src)
        write(f) == [h EXCEPT ![dst.buf] =
                        [i \in 1..Len(h[dst.buf]) |->
                            IF i > dst.off /\ i <= dst.off + dst.len
                            THEN Cast(f[i - dst.off], dst.dtype)
                            ELSE h[dst.buf][i]]]
    IN  IF src.len = dst.len
        THEN [heap |-> write(vals), error |-> FALSE]
        ELSE IF src.len = 1
        THEN [heap |-> write([i \in 1..dst.len |-> vals[1]]), error |-> FALSE]
        ELSE [heap |-> h, error |-> TRUE]

\* Mutant of ZerosBuffer: the cells are whatever the previous run's y held
\* (an np.empty, or a y kept across runs).
ZerosBuffer_stale(len) ==
    IF y # NoArr /\ y.len = len
    THEN [i \in 1..len |-> heap[y.buf][y.off + i]]
    ELSE [i \in 1..len |-> Zero]

\* Mutant of OnesBuffer: np.zeros in place of np.ones.
OnesBuffer_zeros(len) == [i \in 1..len |-> Zero]

\* np.zeros(N), np.ones(N): the cells of a fresh float64 buffer.
ZerosBuffer(len) == [i \in 1..len |-> Zero]

OnesBuffer(len) == [i \in 1..len |-> One]

\* np.arange(N): a fresh int64 buffer 0, 1, ..., N-1.
ArangeBuffer(len) == [i \in 1..len |-> Num(0, i - 1)]

\* Mutant of StridedFill: the fill starts one cell late (buf[start+1::step]).
RECURSIVE StridedFill_late(_, _, _, _)
StridedFill_late(buf, start, step, val) ==
    IF start + 1 >= Len(buf) THEN buf
    ELSE StridedFill_late([buf EXCEPT ![start + 2] = val], start + step, step, val)

\* buf[start::step] = val, written cell by cell (start is 0-based).
RECURSIVE StridedFill(_, _, _, _)
StridedFill(buf, start, step, val) ==
    IF start >= Len(buf) THEN buf
    ELSE StridedFill([buf EXCEPT ![start + 1] = val], start + step, step, val)

(***************************************************************************)
(* build_sequence(N, pattern): returns the heap with n and x allocated.    *)
(***************************************************************************)
build_sequence(h, len, pat) ==
    LET hn == Append(h, ArangeBuffer(len))
        nr == Arr(h, len, "int64")
        xr == Arr(hn, len, "float64")
        xb == IF pat = "Constant (x[n]=1)"
              THEN OnesBuffer(len)
              ELSE StridedFill(ZerosBuffer(len), 0, PULSE_STEP, Cast(One, "float64"))
    IN  [heap |-> Append(hn, xb), n |-> nr, x |-> xr]

(***************************************************************************)
(* The delay block:  y = np.zeros(N); if k < N: y[k:] = x[:N-k]            *)
(***************************************************************************)
\* Mutant of DelayGuard: the slice assignment is not guarded.
DelayGuard_off(kk, len) == TRUE

DelayGuard(kk, len) == kk < len

\* Mutant of DelayBlock: y = x in place of y = np.zeros(N), so the slice
\* assignment writes into the input's buffer.
DelayBlock_inplace(h, xr, kk, len) ==
    LET yr == [xr EXCEPT !.dtype = "float64"]
    IN  IF kk < len
        THEN LET r == SetSlice(h, PySlice(yr, kk, yr.len), PySlice(xr, 0, len - kk))
             IN  [heap |-> r.heap, y |-> yr, error |-> r.error]
        ELSE [heap |-> h, y |-> yr, error |-> FALSE]

\* Mutant of DelayBlock: the shift is one step too long,
\* y[k+1:] = x[:N-k-1].
DelayBlock_late(h, xr, kk, len) ==
    LET h0 == Append(h, [i \in 1..len |-> Zero])
        yr == Arr(h, len, "float64")
    IN  IF kk + 1 < len
        THEN LET r == SetSlice(h0, PySlice(yr, kk + 1, yr.len),
                               PySlice(xr, 0, len - kk - 1))
             IN  [heap |-> r.heap, y |-> yr, error |-> r.error]
        ELSE [heap |-> h0, y |-> yr, error |-> FALSE]

DelayBlock(h, xr, kk, len) ==
    LET h0 == Append(h, ZerosBuffer(len))
        yr == Arr(h, len, "float64")
    IN  IF DelayGuard(kk, len)
        THEN LET r == SetSlice(h0, PySlice(yr, kk, yr.len), PySlice(xr, 0, len - kk))
             IN  [heap |-> r.heap, y |-> yr, error |-> r.error]
        ELSE [heap |-> h0, y |-> yr, error |-> FALSE]

(***************************************************************************)
(* Uploaded files.  pd.read_csv gives a data frame: a sequence of columns  *)
(* of one common length, each [dtype, values].  select_dtypes keeps the    *)
(* int64 and float64 columns.  A float64 column holds float64 values only. *)
(***************************************************************************)
IntValues == {Num(0, 7), Num(1, 1), Num(1, 3)}
FloatValues == {Zero, Num(0, 7), Num(1, 2)}

SeqsOf(S, len) == [1..len -> S]

IntRamp(len) == [dtype |-> "int64", values |-> [i \in 1..len |-> Num(0, i)]]
FloatRamp(len) == [dtype |-> "float64", values |-> [i \in 1..len |-> Num(0, 2 * i)]]
BigRamp(len) == [dtype |-> "int64", values |-> [i \in 1..len |-> Num(1, i % 4)]]
ObjectColumn(len) == [dtype |-> "object", values |-> [i \in 1..len |-> Zero]]

ShortLengths == 1..MaxLen
LongLengths == (CAP - 1)..(CAP + LongExtra)

ShortColumns ==
    UNION {{[dtype |-> "int64", values |-> v] : v \in SeqsOf(IntValues, len)}
           \cup {[dtype |-> "float64", values |-> v] : v \in SeqsOf(FloatValues, len)}
           : len \in ShortLengths}
LongColumns == UNION {{IntRamp(len), BigRamp(len)} : len \in LongLengths}

DataFrames ==
    {<<c>> : c \in ShortColumns \cup LongColumns}
    \cup UNION {{<<ObjectColumn(len)>>,
                 <<ObjectColumn(len), ObjectColumn(len)>>,
                 <<ObjectColumn(len), IntRamp(len)>>,
                 <<FloatRamp(len), ObjectColumn(len), IntRamp(len)>>}
                : len \in ShortLengths}
    \cup {<<ObjectColumn(0)>>}

NoFile == [present |-> FALSE, df |-> <<>>]
Uploads == {NoFile} \cup {[present |-> TRUE, df |-> d] : d \in DataFrames}

\* df.select_dtypes(include=[np.number]).columns.tolist(): the positions of
\* the numeric columns, in column order.
RECURSIVE NumericFrom(_, _)
NumericFrom(df, i) ==
    IF i > Len(df) THEN <<>>
    ELSE IF df[i].dtype \in {"int64", "float64"}
         THEN <<i>> \o NumericFrom(df, i + 1)
         ELSE NumericFrom(df, i + 1)
\* Mutant of numeric_cols: every column is offered, numeric or not.
numeric_cols_all(df) == [i \in 1..Len(df) |-> i]

numeric_cols(df) == NumericFrom(df, 1)

Range(s) == {s[i] : i \in 1..Len(s)}

(***************************************************************************)
(* The section bodies.  Each gives the script's names at the end of a run  *)
(* that starts with no arrays.                                             *)
(***************************************************************************)
FreshHeap == <<>>

Nothing(section, warning) ==
    [N |-> Unset, heap |-> FreshHeap, n |-> NoArr, x |-> NoArr, y |-> NoArr,
     warned |-> warning, plotted |-> FALSE, error |-> FALSE, ran |-> {section}]

IntroductionBody == Nothing(menu[1], FALSE)

RegularBody(len, pat) ==
    LET bs == build_sequence(FreshHeap, len, pat)
    IN  [N |-> len, heap |-> bs.heap, n |-> bs.n, x |-> bs.x, y |-> NoArr,
         warned |-> FALSE, plotted |-> TRUE, error |-> FALSE, ran |-> {menu[2]}]

DelayedBody(len, kk, pat) ==
    LET bs == build_sequence(FreshHeap, len, pat)
        d == DelayBlock(bs.heap, bs.x, kk, len)
    IN  [N |-> len, heap |-> d.heap, n |-> bs.n, x |-> bs.x, y |-> d.y,
         warned |-> FALSE, plotted |-> ~d.error, error |-> d.error,
         ran |-> {menu[3]}]

\* Mutant of RealCompute: the column is not cut to 200 entries.
RealCompute_uncut(f, c, kk) ==
    LET values == f.df[c].values
        data == Arr(FreshHeap, Len(values), f.df[c].dtype)
        hd == Append(FreshHeap, values)
        len == data.len
        d == DelayBlock(hd, data, kk, len)
    IN  [N |-> len,
         heap |-> IF d.error THEN d.heap ELSE Append(d.heap, ArangeBuffer(len)),
         n |-> IF d.error THEN NoArr ELSE Arr(d.heap, len, "int64"),
         x |-> data, y |-> d.y,
         warned |-> FALSE, plotted |-> ~d.error, error |-> d.error,
         ran |-> {menu[4]}]

\* data = df[col].values; N = min(len(data), 200); x = data[:N]; the delay
\* block; n = np.arange(N).  An exception ends the run before n is bound.
RealCompute(f, c, kk) ==
    LET values == f.df[c].values
        data == Arr(FreshHeap, Len(values), f.df[c].dtype)
        hd == Append(FreshHeap, values)
        len == Min(data.len, CAP)
        xr == PySlice(data, 0, len)
        d == DelayBlock(hd, xr, kk, len)
    IN  [N |-> len,
         heap |-> IF d.error THEN d.heap ELSE Append(d.heap, ArangeBuffer(len)),
         n |-> IF d.error THEN NoArr ELSE Arr(d.heap, len, "int64"),
         x |-> xr, y |-> d.y,
         warned |-> FALSE, plotted |-> ~d.error, error |-> d.error,
         ran |-> {menu[4]}]

RealBody(f, c, kk) ==
    IF ~f.present THEN Nothing(menu[4], FALSE)
    ELSE IF Len(numeric_cols(f.df)) = 0 THEN Nothing(menu[4], TRUE)
    ELSE RealCompute(f, c, kk)

\* The if / elif chain on choice.
Script(c, len, kk, pat, f, cc) ==
    IF c = menu[1] THEN IntroductionBody
    ELSE IF c = menu[2] THEN RegularBody(len, pat)
    ELSE IF c = menu[3] THEN DelayedBody(len, kk, pat)
    ELSE IF c = menu[4] THEN RealBody(f, cc, kk)
    ELSE Nothing("", FALSE)

\* One run of the script with the widgets returning the given values.
Rerun(c, len, kk, pat, f, cc) ==
    \E out \in {Script(c, len, kk, pat, f, cc)} :
        /\ choice' = c /\ k' = kk /\ pattern' = pat
        /\ uploaded_file' = f /\ col' = cc
        /\ N' = out.N /\ heap' = out.heap
        /\ n' = out.n /\ x' = out.x /\ y' = out.y
        /\ warned' = out.warned /\ plotted' = out.plotted /\ error' = out.error
        /\ ran' = out.ran
        /\ UNCHANGED composeVars

ComposeIdle ==
    /\ stage = "idle" /\ a = Unset /\ b = Unset
    /\ y1 = NoArr /\ y2 = NoArr /\ z = NoArr

\* The first run: the selectbox returns its first option.
Init ==
    /\ choice = menu[1]
    /\ N = Unset /\ k = Unset /\ pattern = "" /\ uploaded_file = NoFile
    /\ col = Unset /\ heap = FreshHeap
    /\ n = NoArr /\ x = NoArr /\ y = NoArr
    /\ warned = FALSE /\ plotted = FALSE /\ error = FALSE
    /\ ran = {menu[1]}
    /\ ComposeIdle

(***************************************************************************)
(* The interactions.  A widget that was drawn in the previous run keeps    *)
(* its value; one that was not starts from its default.  The two synthetic *)
(* sections draw the same N slider and pattern selectbox, so on a switch   *)
(* between them either outcome is allowed.  A slider is moved one step at  *)
(* a time (a drag is a run of steps).                                      *)
(***************************************************************************)
Synthetic == {menu[2], menu[3]}

SelectSection ==
    \E c \in Range(menu) \ {choice} :
        \E len \in IF c \in Synthetic
                   THEN {N_DEFAULT} \cup (IF choice \in Synthetic THEN {N} ELSE {})
                   ELSE {Unset},
           pat \in IF c \in Synthetic
                   THEN {"Constant (x[n]=1)"}
                        \cup (IF choice \in Synthetic THEN {pattern} ELSE {})
                   ELSE {""} :
            Rerun(c, len, IF c = menu[3] THEN K_DEFAULT_DELAYED ELSE Unset,
                  pat, NoFile, Unset)

MoveN ==
    /\ choice \in Synthetic
    /\ \E len \in {N - 1, N + 1} \cap (N_MIN..N_MAX) :
           Rerun(choice, len, k, pattern, uploaded_file, col)

MoveK ==
    /\ choice \in {menu[3], menu[4]}
    /\ k # Unset
    /\ \E kk \in {k - 1, k + 1}
                 \cap (0..(IF choice = menu[3] THEN K_MAX_DELAYED ELSE K_MAX_REAL)) :
           Rerun(choice, N, kk, pattern, uploaded_file, col)

SelectPattern ==
    /\ choice \in Synthetic
    /\ \E pat \in Patterns \ {pattern} :
           Rerun(choice, N, k, pat, uploaded_file, col)

\* A new upload (or the removal of the file).  The column selectbox starts
\* at the first numeric column; the k slider keeps its value when it was
\* drawn before.
Upload ==
    /\ choice = menu[4]
    /\ \E f \in Uploads \ {uploaded_file} :
           IF f.present /\ Len(numeric_cols(f.df)) > 0
           THEN Rerun(choice, Unset, IF k # Unset THEN k ELSE K_DEFAULT_REAL, "",
                      f, numeric_cols(f.df)[1])
           ELSE Rerun(choice, Unset, Unset, "", f, Unset)

SelectColumn ==
    /\ choice = menu[4]
    /\ col # Unset
    /\ \E c \in Range(numeric_cols(uploaded_file.df)) \ {col} :
           Rerun(choice, Unset, k, pattern, uploaded_file, c)

Next ==
    \/ SelectSection
    \/ MoveN
    \/ MoveK
    \/ SelectPattern
    \/ Upload
    \/ SelectColumn

Spec == Init /\ [][Next]_vars

(***************************************************************************)
(* The delay block as a function of (x, k): applied with a, then with b to *)
(* the result, and once with a + b to the same input.                      *)
(***************************************************************************)
ComposeInputs ==
    UNION {{[dtype |-> "int64", values |-> v] : v \in SeqsOf(IntValues, len)}
           \cup {[dtype |-> "float64", values |-> v] : v \in SeqsOf(FloatValues, len)}
           : len \in 1..MaxComposeLen}

InitCompose ==
    \E c \in ComposeInputs :
        /\ choice = menu[1]
        /\ N = Len(c.values) /\ k = Unset /\ pattern = "" /\ uploaded_file = NoFile
        /\ col = Unset
        /\ heap = Append(FreshHeap, c.values)
        /\ x = Arr(FreshHeap, Len(c.values), c.dtype)
        /\ n = NoArr /\ y = NoArr
        /\ warned = FALSE /\ plotted = FALSE /\ error = FALSE
        /\ ran = {}
        /\ stage = "start"
        /\ a \in 0..MaxShift /\ b \in 0..MaxShift
        /\ y1 = NoArr /\ y2 = NoArr /\ z = NoArr

ComposeFirst ==
    /\ stage = "start"
    /\ \E d \in {DelayBlock(heap, x, a, N)} :
           heap' = d.heap /\ y1' = d.y /\ error' = (error \/ d.error)
    /\ stage' = "first"
    /\ UNCHANGED <<choice, N, k, pattern, uploaded_file, col, n, x, y, warned,
                   plotted, ran, a, b, y2, z>>

ComposeSecond ==
    /\ stage = "first"
    /\ \E d \in {DelayBlock(heap, y1, b, N)} :
           heap' = d.heap /\ y2' = d.y /\ error' = (error \/ d.error)
    /\ stage' = "second"
    /\ UNCHANGED <<choice, N, k, pattern, uploaded_file, col, n, x, y, warned,
                   plotted, ran, a, b, y1, z>>

ComposeOnce ==
    /\ stage = "second"
    /\ \E d \in {DelayBlock(heap, x, a + b, N)} :
           heap' = d.heap /\ z' = d.y /\ error' = (error \/ d.error)
    /\ stage' = "done"
    /\ UNCHANGED <<choice, N, k, pattern, uploaded_file, col, n, x, y, warned,
                   plotted, ran, a, b, y1, y2>>

NextCompose == ComposeFirst \/ ComposeSecond \/ ComposeOnce

SpecCompose == InitCompose /\ [][NextCompose]_vars

(***************************************************************************)
(* Vocabulary of the properties.  Index i of a property is the 0-based     *)
(* time step; sequences are 1-based.                                       *)
(***************************************************************************)
X == Elems(heap, x)
Y == Elems(heap, y)

\* A run in which the delay block was executed.
DelayComputed == choice \in {menu[3], menu[4]} /\ y # NoArr

\* The selected column of the upload, as uploaded.
Column == uploaded_file.df[col].values

NumericCount(df) == Cardinality({i \in 1..Len(df) : df[i].dtype \in {"int64", "float64"}})

\* What the pattern prescribes for a synthetic sequence of the given length.
Prescribed(len, pat) ==
    [i \in 1..len |->
        IF pat = "Constant (x[n]=1)" \/ (i - 1) % 3 = 0 THEN One ELSE Zero]

\* The input of the run's delay block, as it stood before the block ran.
Input ==
    IF choice = menu[3] THEN Prescribed(N, pattern)
    ELSE [i \in 1..N |-> Column[i]]

(***************************************************************************)
(* C1.  For 0 <= k < N the delay computation yields y of length N with     *)
(* y[n] = x[n-k] for k <= n < N and y[n] = 0 for 0 <= n < k, in both the   *)
(* Delayed Delivery Model and the Real Data Demo.                          *)
(* Refuted in the Real Data Demo: y is float64, and an int64 entry above   *)
(* 2^53 is rounded on the way in.                                          *)
(***************************************************************************)
C1_DelayLaw ==
    (DelayComputed /\ 0 <= k /\ k < N) =>
        /\ ~error
        /\ y.len = N
        /\ \A i \in 0..(N - 1) :
               Y[i + 1] = IF i >= k THEN X[i - k + 1] ELSE Zero

(***************************************************************************)
(* C2.  Degeneracy: for k >= N the delay computation raises no error and   *)
(* yields the all-zero sequence of length N.                               *)
(***************************************************************************)
C2_Degeneracy ==
    (DelayComputed /\ k >= N) =>
        /\ ~error
        /\ y.len = N
        /\ \A i \in 0..(N - 1) : Y[i + 1] = Zero

C2_Witness ==
    /\ choice = menu[3] /\ y # NoArr
    /\ N = 10 /\ k = 20
    /\ \E i \in 1..N : X[i] # Zero

(***************************************************************************)
(* C3.  Identity: with k = 0 the delay computation yields y equal to x     *)
(* element for element.                                                    *)
(* Refuted in the Real Data Demo by the rounding of C1.                    *)
(***************************************************************************)
C3_Identity == (DelayComputed /\ k = 0) => (~error /\ Y = X)

(***************************************************************************)
(* C4.  build_sequence(N, Pulse) returns x of length N with x[i] = 1 iff   *)
(* i % 3 = 0, and x[i] = 0 otherwise.                                      *)
(***************************************************************************)
C4_Pulse ==
    (choice \in Synthetic /\ pattern = "Pulse / Periodic (1,0,0,...)") =>
        /\ x.len = N
        /\ \A i \in 0..(N - 1) :
               /\ (X[i + 1] = One) <=> (i % 3 = 0)
               /\ (X[i + 1] # One) => (X[i + 1] = Zero)

C4_Witness ==
    /\ choice = menu[2] /\ pattern = "Pulse / Periodic (1,0,0,...)"
    /\ N = 11
    /\ X[10] = One /\ X[11] = Zero

(***************************************************************************)
(* C5.  build_sequence(N, Constant) returns x of length exactly N whose    *)
(* every element is 1.                                                     *)
(***************************************************************************)
C5_Constant ==
    (choice \in Synthetic /\ pattern = "Constant (x[n]=1)") =>
        /\ x.len = N
        /\ Len(X) = N
        /\ \A i \in 0..(N - 1) : X[i + 1] = One

C5_Witness ==
    /\ choice = menu[2] /\ pattern = "Constant (x[n]=1)"
    /\ N = N_MAX /\ Len(X) = N_MAX

(***************************************************************************)
(* C6.  The delay computation never mutates its input: after y has been    *)
(* computed x holds the values it held before, and y is a new sequence     *)
(* that shares no storage with x.                                          *)
(***************************************************************************)
C6_InputUntouched ==
    DelayComputed =>
        /\ y.buf # x.buf
        /\ X = Input

C6_Witness ==
    /\ choice = menu[4] /\ y # NoArr /\ ~error
    /\ k > 0 /\ k < N
    /\ Y # X
    /\ X = Column

(***************************************************************************)
(* C7.  In the Real Data Demo x is exactly the first min(L, 200) entries   *)
(* of the uploaded column, in order; x and y never exceed 200 elements and *)
(* have equal length.                                                      *)
(***************************************************************************)
C7_FirstEntries ==
    (choice = menu[4] /\ y # NoArr) =>
        LET L == Len(Column)
            m == IF L <= 200 THEN L ELSE 200
        IN  /\ x.len = m
            /\ \A i \in 0..(m - 1) : X[i + 1] = Column[i + 1]
            /\ x.len <= 200 /\ y.len <= 200
            /\ y.len = x.len
            /\ Len(Y) = Len(X)

C7_Witness ==
    /\ choice = menu[4] /\ y # NoArr
    /\ Len(Column) = 201
    /\ x.len = 200 /\ y.len = 200
    /\ X[200] = Column[200]

(***************************************************************************)
(* C8.  In the Real Data Demo an upload without numeric columns is         *)
(* answered by the warning and by no delay computation and no plot; with   *)
(* no upload nothing is computed at all; a delay is computed only when a   *)
(* file is present and has at least one numeric column.                    *)
(***************************************************************************)
C8_NoNumericColumns ==
    choice = menu[4] =>
        /\ ~uploaded_file.present =>
               (~warned /\ ~plotted /\ x = NoArr /\ y = NoArr /\ heap = <<>>)
        /\ (uploaded_file.present /\ NumericCount(uploaded_file.df) = 0) =>
               (warned /\ ~plotted /\ x = NoArr /\ y = NoArr /\ heap = <<>>)
        /\ (y # NoArr) <=>
               (uploaded_file.present /\ NumericCount(uploaded_file.df) >= 1)
        /\ warned => (y = NoArr)

C8_Witness ==
    /\ choice = menu[4] /\ uploaded_file.present
    /\ Len(uploaded_file.df) = 2
    /\ NumericCount(uploaded_file.df) = 0
    /\ warned /\ y = NoArr

(***************************************************************************)
(* C9.  After any sequence of interactions the x and y of the latest run   *)
(* are determined by that run's inputs alone (section, N, k, pattern,      *)
(* uploaded column), whatever the earlier runs computed, and exactly one   *)
(* section's body ran.                                                     *)
(***************************************************************************)
Shifted(src, kk, len) ==
    [i \in 1..len |-> IF i - 1 >= kk THEN ToFloat64(src[i - kk]) ELSE Zero]

C9_InputsOnly ==
    /\ ran = {choice}
    /\ Cardinality(ran) = 1
    /\ choice = menu[1] => (x = NoArr /\ y = NoArr)
    /\ choice = menu[2] => (X = Prescribed(N, pattern) /\ y = NoArr)
    /\ choice = menu[3] =>
           /\ X = Prescribed(N, pattern)
           /\ Y = Shifted(Prescribed(N, pattern), k, N)
    /\ choice = menu[4] =>
           IF uploaded_file.present /\ NumericCount(uploaded_file.df) >= 1
           THEN /\ N = (IF Len(Column) <= 200 THEN Len(Column) ELSE 200)
                /\ X = [i \in 1..N |-> Column[i]]
                /\ Y = Shifted(Column, k, N)
           ELSE x = NoArr /\ y = NoArr

\* A run whose predecessor computed a different y of the same length.
C9_Witness ==
    /\ choice = menu[3] /\ y # NoArr
    /\ N = N_DEFAULT /\ k = K_DEFAULT_DELAYED + 2
    /\ pattern = "Pulse / Periodic (1,0,0,...)"
    /\ Y[6] = One /\ Y[4] = Zero

(***************************************************************************)
(* C10.  Delays compose additively: the delay computation applied with a   *)
(* and then with b gives the sequence it gives applied once with a + b,    *)
(* also when a, b or a + b reaches N.                                      *)
(***************************************************************************)
C10_Additive ==
    stage = "done" =>
        /\ ~error
        /\ Elems(heap, y2) = Elems(heap, z)

C10_Witness ==
    /\ stage = "done"
    /\ a > 0 /\ b > 0 /\ a + b < N
    /\ Elems(heap, z)[N] # Zero
    /\ Elems(heap, y2) = Elems(heap, z)

====
